---- MODULE Spec2Model ----
(***************************************************************************)
(* Model of the HiFi-GAN dataset builder (src/unnamed/part_000, lines 1 to *)
(* 290): main() and create_training_and_validation_files().                *)
(*                                                                         *)
(* Text is a sequence of tokens.  A token is one character ("a", " ", "_", *)
(* ".", "/", "|", "\n", a digit) or a word of the program's own literals   *)
(* ("hifi_gan_dataset", "mel", "_segment_", "npy", ...).  The characters   *)
(* the code splits on or replaces are always tokens of their own, so       *)
(* splitting, stripping and sanitizing act here as they act on the text.   *)
(* Durations are in tenths of a second.                                    *)
(***************************************************************************)
EXTENDS Integers, Sequences, FiniteSets

VARIABLES
    ffmpeg_exists,     \* os.path.isfile(FFMPEG_PATH)
    output_dirs,       \* directories made when the module is loaded
    pc,                \* position of main()
    audio_files,       \* main: audio_files
    audio_idx,         \* main: audio_idx
    json_data,         \* main: json_data, the elements read so far
    total_entries,     \* main: total_entries
    idx,               \* main: idx
    metadata_entries,  \* main: metadata_entries
    clips,             \* files in AUDIO_OUTPUT_DIR
    mels,              \* files in MEL_OUTPUT_DIR
    metadata_csv,      \* content of METADATA_PATH
    training_txt,      \* content of training_output
    validation_txt,    \* content of validation_output
    train_ratio,       \* create_training_and_validation_files: train_ratio
    attempted,         \* history: audio_idx values whose loop body has run
    segState,          \* history: state of each segment, by <<audio_idx, idx>>
    splitLog           \* history: how each call of the splitter ended

vars == <<ffmpeg_exists, output_dirs, pc, audio_files, audio_idx,
          json_data, total_entries, idx, metadata_entries, clips, mels,
          metadata_csv, training_txt, validation_txt, train_ratio,
          attempted, segState, splitLog>>

----------------------------------------------------------------------------
(* Bounds of the model. *)

\* most entries of the input directory
MaxFiles == 2
\* most segments of one annotation file
MaxSegs == 3
\* most lines of a manifest given to the splitter on its own
MaxManifest == 10
\* most lines of a hand-made manifest given to the splitter on its own
MaxLines == 2

----------------------------------------------------------------------------
(* Sequences. *)

Last(s) == s[Len(s)]

Range(s) == {s[i] : i \in 1..Len(s)}

RECURSIVE Concat(_)
\* "".join(parts)
Concat(parts) ==
    IF parts = <<>> THEN <<>> ELSE Head(parts) \o Concat(Tail(parts))

\* the sequences of distinct elements of S, at most n long
DistinctSeqs(S, n) ==
    UNION {{s \in [1..k -> S] : \A i, j \in 1..k : i # j => s[i] # s[j]} : k \in 0..n}

\* the sequences over S, at most n long
SeqsUpTo(S, n) == UNION {[1..k -> S] : k \in 0..n}

----------------------------------------------------------------------------
(* Configuration. *)

AUDIO_OUTPUT_DIR == <<"hifi_gan_dataset", "/", "audio">>
MEL_OUTPUT_DIR == <<"hifi_gan_dataset", "/", "mel">>

SUPPORTED_AUDIO_FORMATS ==
    {<<".", "mp3">>, <<".", "wav">>, <<".", "flac">>, <<".", "m4a">>, <<".", "aac">>}

\* a file that does not exist
NoFile == <<"<absent>">>

----------------------------------------------------------------------------
(* Text. *)

Digits == <<"0", "1", "2", "3", "4", "5", "6", "7", "8", "9">>

\* str.isalnum() of one token
isalnum(c) ==
    c \in Range(Digits) \cup {"a", "b", "mp3", "wav", "WAV", "flac", "txt", "npy"}

\* str.lower()
lower(s) == [i \in 1..Len(s) |-> IF s[i] = "WAV" THEN "wav" ELSE s[i]]

\* os.path.splitext(file): <<root, ext>>; the extension starts at the last
\* dot that has a character other than a dot before it
splitext(file) ==
    LET dots == {i \in 1..Len(file) : file[i] = "."}
        dotIndex == IF dots = {} THEN 0 ELSE CHOOSE i \in dots : \A j \in dots : j <= i
    IN  IF dotIndex > 0 /\ \E k \in 1..(dotIndex - 1) : file[k] # "."
        THEN <<SubSeq(file, 1, dotIndex - 1), SubSeq(file, dotIndex, Len(file))>>
        ELSE <<file, <<>> >>

sanitize_filename(filename) ==
    [i \in 1..Len(filename) |->
        IF isalnum(filename[i]) \/ filename[i] \in {"_", "-"}
        THEN filename[i] ELSE "_"]

RECURSIVE Decimal(_)
\* str(n) for n >= 0
Decimal(n) ==
    IF n < 10 THEN <<Digits[n + 1]>> ELSE Decimal(n \div 10) \o <<Digits[(n % 10) + 1]>>

\* f"{idx:03d}"
Format03d(n) ==
    LET d == Decimal(n)
    IN  IF Len(d) >= 3 THEN d ELSE [i \in 1..(3 - Len(d)) |-> "0"] \o d

\* a name numbered by the segments of the recording that were not skipped
SegmentStemRenumbered(base_name, i) ==
    sanitize_filename(base_name) \o <<"_segment_">>
        \o Format03d(i - Cardinality({j \in 1..(i - 1) :
                                         /\ <<audio_idx, j>> \in DOMAIN segState
                                         /\ segState[<<audio_idx, j>>] = "Skipped"}))

\* f"{sanitized_base}_segment_{idx:03d}"
SegmentStem(base_name, i) ==
    sanitize_filename(base_name) \o <<"_segment_">> \o Format03d(i)

segment_filename(base_name, i) == SegmentStem(base_name, i) \o <<".", "wav">>

mel_filename(base_name, i) == SegmentStem(base_name, i) \o <<".", "npy">>

metadata_entry(base_name, i) ==
    <<"hifi_gan_dataset", "/", "mel", "/">> \o mel_filename(base_name, i)
        \o <<"|", "hifi_gan_dataset", "/", "audio", "/">> \o segment_filename(base_name, i)

RECURSIVE split(_, _)
\* s.split(sep): the pieces of s between the occurrences of sep
split(s, sep) ==
    IF \A i \in 1..Len(s) : s[i] # sep
    THEN <<s>>
    ELSE LET k == CHOOSE i \in 1..Len(s) : s[i] = sep /\ \A j \in 1..(i - 1) : s[j] # sep
         IN  <<SubSeq(s, 1, k - 1)>> \o split(SubSeq(s, k + 1, Len(s)), sep)

Whitespace == {" ", "\n"}

\* s.strip()
strip(s) ==
    LET keep == {i \in 1..Len(s) : s[i] \notin Whitespace}
    IN  IF keep = {} THEN <<>>
        ELSE SubSeq(s, CHOOSE i \in keep : \A j \in keep : i <= j,
                       CHOOSE i \in keep : \A j \in keep : j <= i)

\* a writer that leaves out the line ends
WriteLinesUnterminated(entries) ==
    Concat([i \in 1..Len(entries) |-> entries[i]])

\* what writing each entry followed by "\n" leaves in a file
WriteLines(entries) ==
    Concat([i \in 1..Len(entries) |-> entries[i] \o <<"\n">>])

----------------------------------------------------------------------------
(* Inputs. *)

\* names the input directory may hold
AudioNames ==
    { <<"a", " ", "b", ".", "mp3">>,
      <<"a", "_", "b", ".", "WAV">>,
      <<"a", ".", "b", ".", "txt">>,
      <<".", "mp3">> }

\* an element of an annotation list: its "duration" is a number, is absent,
\* or is a string
Seg(t, v) == [dtype |-> t, dval |-> v]

Segments ==
    {Seg("number", 50), Seg("number", 32), Seg("number", -10),
     Seg("absent", 0), Seg("string", 0)}

\* what main finds at json_path: no file, a file that is not JSON, JSON
\* that is not a list, or a list of n elements
JsonFiles ==
    {[kind |-> k, n |-> 0] : k \in {"missing", "unparsable", "not_a_list"}}
        \cup {[kind |-> "list", n |-> n] : n \in 0..MaxSegs}

----------------------------------------------------------------------------
(* main: the decisions it takes. *)

\* a check that always passes
FfmpegFoundAlways(exists) == TRUE

\* os.path.isfile(FFMPEG_PATH)
FfmpegFound(exists) == exists

\* [file for file in os.listdir(...) if splitext(file)[1].lower() in SUPPORTED]
SupportedFiles(listing) ==
    LET keep(name) == lower(splitext(name)[2]) \in SUPPORTED_AUDIO_FORMATS
        F[k \in 0..Len(listing)] ==
            IF k = 0 THEN <<>>
            ELSE IF keep(listing[k]) THEN Append(F[k - 1], listing[k]) ELSE F[k - 1]
    IN  F[Len(listing)]

\* base_name = os.path.splitext(audio_file)[0]
base_name(audio_file) == splitext(audio_file)[1]

\* segment.get("duration", 0.0)
GetDuration(segment) == IF segment.dtype = "absent" THEN 0 ELSE segment.dval

\* evaluating "duration <= 0" raises TypeError when duration is a string
DurationRaises(segment) == segment.dtype = "string"

\* a test that lets a duration of zero through
InvalidDurationStrict(duration) == duration < 0

\* duration <= 0
InvalidDuration(duration) == duration <= 0

SetState(p, s) ==
    [q \in (DOMAIN segState) \cup {p} |-> IF q = p THEN s ELSE segState[q]]

cur == <<audio_idx, idx>>

curBase == base_name(audio_files[audio_idx])

----------------------------------------------------------------------------
(* main: its steps. *)

Init ==
    /\ ffmpeg_exists \in BOOLEAN
    /\ output_dirs = {AUDIO_OUTPUT_DIR, MEL_OUTPUT_DIR}
    /\ pc = "start"
    /\ audio_files = <<>>
    /\ audio_idx = 0
    /\ json_data = <<>>
    /\ total_entries = 0
    /\ idx = 0
    /\ metadata_entries = <<>>
    /\ clips = {}
    /\ mels = {}
    /\ metadata_csv = NoFile
    /\ training_txt = NoFile
    /\ validation_txt = NoFile
    /\ train_ratio = <<9, 10>>
    /\ attempted = {}
    /\ segState = <<>>
    /\ splitLog = <<>>

\* lines 171-174
VerifyFfmpeg ==
    /\ pc = "start"
    /\ pc' = IF FfmpegFound(ffmpeg_exists) THEN "list" ELSE "exit"
    /\ UNCHANGED <<ffmpeg_exists, output_dirs, audio_files, audio_idx,
                   json_data, total_entries, idx, metadata_entries, clips, mels,
                   metadata_csv, training_txt, validation_txt, train_ratio,
                   attempted, segState, splitLog>>

\* lines 176-187; os.listdir gives the names in any order
ListAudioFiles ==
    /\ pc = "list"
    /\ metadata_entries' = <<>>
    /\ \E listing \in DistinctSeqs(AudioNames, MaxFiles) :
          audio_files' = SupportedFiles(listing)
    /\ IF Len(audio_files') = 0
       THEN pc' = "returned" /\ UNCHANGED audio_idx
       ELSE pc' = "rec" /\ audio_idx' = 1
    /\ UNCHANGED <<ffmpeg_exists, output_dirs, json_data, total_entries,
                   idx, clips, mels, metadata_csv, training_txt, validation_txt,
                   train_ratio, attempted, segState, splitLog>>

\* lines 189-220: one pass of the loop over audio_files, up to the loop over
\* the segments
BeginRecording ==
    /\ pc = "rec"
    /\ audio_idx <= Len(audio_files)
    /\ attempted' = attempted \cup {audio_idx}
    /\ \E found \in JsonFiles :
          \/ /\ \/ found.kind \in {"missing", "unparsable"}
                \/ found.kind = "list" /\ found.n = 0
             /\ audio_idx' = audio_idx + 1
             /\ pc' = "rec"
             /\ UNCHANGED <<json_data, total_entries, idx>>
          \/ /\ found.kind = "not_a_list"
             /\ pc' = "crashed"
             /\ UNCHANGED <<audio_idx, json_data, total_entries, idx>>
          \/ /\ found.kind = "list" /\ found.n > 0
             /\ json_data' = <<>>
             /\ total_entries' = found.n
             /\ idx' = 1
             /\ pc' = "seg"
             /\ UNCHANGED audio_idx
    /\ UNCHANGED <<ffmpeg_exists, output_dirs, audio_files,
                   metadata_entries, clips, mels, metadata_csv, training_txt,
                   validation_txt, train_ratio, segState, splitLog>>

\* lines 222-234: the head of the loop over the segments, up to the transcoder
ReadSegment ==
    /\ pc = "seg"
    /\ idx <= total_entries
    /\ \E segment \in Segments :
          /\ json_data' = Append(json_data, segment)
          /\ IF DurationRaises(segment)
             THEN pc' = "crashed" /\ UNCHANGED <<idx, segState>>
             ELSE IF InvalidDuration(GetDuration(segment))
             THEN pc' = "seg" /\ idx' = idx + 1 /\ segState' = SetState(cur, "Skipped")
             ELSE pc' = "transcode" /\ UNCHANGED idx
                  /\ segState' = SetState(cur, "Transcoding")
    /\ UNCHANGED <<ffmpeg_exists, output_dirs, audio_files, audio_idx,
                   total_entries, metadata_entries, clips, mels, metadata_csv,
                   training_txt, validation_txt, train_ratio, attempted, splitLog>>

\* lines 236-247: ffmpeg writes the clip, or fails and the segment is left
Transcode ==
    /\ pc = "transcode"
    /\ \/ /\ clips' = clips \cup {segment_filename(curBase, idx)}
          /\ segState' = SetState(cur, "FeatureExtracting")
          /\ pc' = "extract"
          /\ UNCHANGED idx
       \/ /\ segState' = SetState(cur, "Skipped")
          /\ pc' = "seg"
          /\ idx' = idx + 1
          /\ UNCHANGED clips
    /\ UNCHANGED <<ffmpeg_exists, output_dirs, audio_files, audio_idx,
                   json_data, total_entries, metadata_entries, mels, metadata_csv,
                   training_txt, validation_txt, train_ratio, attempted, splitLog>>

\* an extraction that removes the clip when it fails
ExtractMelCleanup ==
    /\ pc = "extract"
    /\ \/ /\ pc' = "save"
          /\ UNCHANGED <<idx, segState, clips>>
       \/ /\ segState' = SetState(cur, "Skipped")
          /\ clips' = clips \ {segment_filename(curBase, idx)}
          /\ pc' = "seg"
          /\ idx' = idx + 1
    /\ UNCHANGED <<ffmpeg_exists, output_dirs, audio_files, audio_idx,
                   json_data, total_entries, metadata_entries, mels,
                   metadata_csv, training_txt, validation_txt, train_ratio,
                   attempted, splitLog>>

\* lines 249-254: librosa computes the spectrogram, or fails
ExtractMel ==
    /\ pc = "extract"
    /\ \/ /\ pc' = "save"
          /\ UNCHANGED <<idx, segState>>
       \/ /\ segState' = SetState(cur, "Skipped")
          /\ pc' = "seg"
          /\ idx' = idx + 1
    /\ UNCHANGED <<ffmpeg_exists, output_dirs, audio_files, audio_idx,
                   json_data, total_entries, metadata_entries, clips, mels,
                   metadata_csv, training_txt, validation_txt, train_ratio,
                   attempted, splitLog>>

\* lines 256-275: np.save writes the feature file and the entry is appended,
\* or np.save fails
SaveMel ==
    /\ pc = "save"
    /\ \/ /\ mels' = mels \cup {mel_filename(curBase, idx)}
          /\ metadata_entries' = Append(metadata_entries, metadata_entry(curBase, idx))
          /\ segState' = SetState(cur, "Recorded")
       \/ /\ segState' = SetState(cur, "Skipped")
          /\ UNCHANGED <<mels, metadata_entries>>
    /\ pc' = "seg"
    /\ idx' = idx + 1
    /\ UNCHANGED <<ffmpeg_exists, output_dirs, audio_files, audio_idx,
                   json_data, total_entries, clips, metadata_csv, training_txt,
                   validation_txt, train_ratio, attempted, splitLog>>

\* line 277: the loop over the segments is over.  json_data is not read
\* again before line 210 assigns it; the model forgets it here.
EndRecording ==
    /\ pc = "seg"
    /\ idx > total_entries
    /\ audio_idx' = audio_idx + 1
    /\ json_data' = <<>>
    /\ pc' = "rec"
    /\ UNCHANGED <<ffmpeg_exists, output_dirs, audio_files,
                   total_entries, idx, metadata_entries, clips, mels, metadata_csv,
                   training_txt, validation_txt, train_ratio, attempted, segState,
                   splitLog>>

\* a flush inside the loop over audio_files, after any recording
FlushManifestEarly ==
    /\ pc = "rec"
    /\ \/ /\ metadata_csv' = WriteLines(metadata_entries)
          /\ pc' = "split"
       \/ /\ pc' = "done"
          /\ UNCHANGED metadata_csv
    /\ UNCHANGED <<ffmpeg_exists, output_dirs, audio_files, audio_idx,
                   json_data, total_entries, idx, metadata_entries, clips, mels,
                   training_txt, validation_txt, train_ratio, attempted, segState,
                   splitLog>>

\* lines 279-284 and 286-287: the manifest is written, or opening it fails
\* and the handler reports it
FlushManifest ==
    /\ pc = "rec"
    /\ audio_idx > Len(audio_files)
    /\ \/ /\ metadata_csv' = WriteLines(metadata_entries)
          /\ pc' = "split"
       \/ /\ pc' = "done"
          /\ UNCHANGED metadata_csv
    /\ UNCHANGED <<ffmpeg_exists, output_dirs, audio_files, audio_idx,
                   json_data, total_entries, idx, metadata_entries, clips, mels,
                   training_txt, validation_txt, train_ratio, attempted, segState,
                   splitLog>>

----------------------------------------------------------------------------
(* create_training_and_validation_files. *)

\* lines 52-53: f.read().strip().split('\n')
ReadLines(content) == split(strip(content), "\n")

\* a reader that takes the first field of any line
LineUnpacksLoose(line) == Len(split(line, "|")) <= 2

\* line 59: "left_path, right_path = line.split('|')" raises ValueError
\* unless the line has exactly two fields
LineUnpacks(line) == Len(split(line, "|")) = 2

\* lines 59-64: the name of the left path up to its first dot
BaseNameOf(line) == split(Last(split(split(line, "|")[1], "/")), ".")[1]

\* lines 56-66: data
BaseNames(lines) == [i \in 1..Len(lines) |-> BaseNameOf(lines[i])]

\* an index rounded up
SplitIndexCeil(n, ratio) == (n * ratio[1] + ratio[2] - 1) \div ratio[2]

\* line 72: int(len(data) * train_ratio), the ratio being <<numerator, denominator>>
SplitIndex(n, ratio) == (n * ratio[1]) \div ratio[2]

RECURSIVE KSubsets(_, _)
\* the subsets of S that have k elements
KSubsets(S, k) ==
    IF k = 0 THEN {{}}
    ELSE IF 2 * k > Cardinality(S)
    THEN {S \ T : T \in KSubsets(S, Cardinality(S) - k)}
    ELSE {T \cup {x} : <<T, x>> \in {tx \in KSubsets(S, k - 1) \X S : tx[2] \notin tx[1]}}

\* the elements of data at the positions in P
Pick(data, P) ==
    LET F[k \in 0..Len(data)] ==
            IF k = 0 THEN <<>>
            ELSE IF k \in P THEN Append(F[k - 1], data[k]) ELSE F[k - 1]
    IN  F[Len(data)]

\* lines 51-86.  random.shuffle followed by the two slices puts any
\* split_index of the positions of data in the first slice and the others in
\* the second; the order inside a slice is not kept, the elements are
\* written here in the order of the manifest.
CreateSplit ==
    /\ pc = "split"
    /\ pc' = "done"
    /\ LET lines == ReadLines(metadata_csv)
           data == BaseNames(lines)
       IN  \/ /\ \/ metadata_csv = NoFile
                 \/ \E i \in 1..Len(lines) : ~LineUnpacks(lines[i])
              /\ splitLog' = Append(splitLog, "error")
              /\ UNCHANGED <<training_txt, validation_txt>>
           \/ /\ metadata_csv # NoFile
              /\ \A i \in 1..Len(lines) : LineUnpacks(lines[i])
              /\ \E P \in KSubsets(1..Len(data), SplitIndex(Len(data), train_ratio)) :
                    /\ training_txt' = WriteLines(Pick(data, P))
                    /\ validation_txt' = WriteLines(Pick(data, (1..Len(data)) \ P))
              /\ splitLog' = Append(splitLog, "ok")
    /\ UNCHANGED <<ffmpeg_exists, output_dirs, audio_files, audio_idx,
                   json_data, total_entries, idx, metadata_entries, clips, mels,
                   metadata_csv, train_ratio, attempted, segState>>

----------------------------------------------------------------------------
(* The run of main. *)

Next ==
    \/ VerifyFfmpeg
    \/ ListAudioFiles
    \/ BeginRecording
    \/ ReadSegment
    \/ Transcode
    \/ ExtractMel
    \/ SaveMel
    \/ EndRecording
    \/ FlushManifest
    \/ CreateSplit

Spec == Init /\ [][Next]_vars

----------------------------------------------------------------------------
(* The splitter on its own, given any manifest and ratio. *)

\* the manifest main writes for a recording "a" whose n segments all succeed
WrittenManifest(n) == WriteLines([i \in 1..n |-> metadata_entry(<<"a">>, i)])

\* lines of a manifest written by hand
HandLines ==
    { metadata_entry(<<"a">>, 1),
      metadata_entry(<<"b">>, 1),
      <<"hifi_gan_dataset", "/", "mel", "/", "a", ".", "npy">>,
      <<"a", ".", "npy", "|", "a", ".", "wav", "|", "a">>,
      <<>> }

Manifests ==
    {WrittenManifest(n) : n \in 0..MaxManifest}
        \cup {WriteLines(s) : s \in SeqsUpTo(HandLines, MaxLines)}
        \cup {NoFile}

Ratios == {<<1, 10>>, <<1, 2>>, <<9, 10>>}

SplitInit ==
    /\ ffmpeg_exists = TRUE
    /\ output_dirs = {AUDIO_OUTPUT_DIR, MEL_OUTPUT_DIR}
    /\ pc = "split"
    /\ audio_files = <<>>
    /\ audio_idx = 0
    /\ json_data = <<>>
    /\ total_entries = 0
    /\ idx = 0
    /\ metadata_entries = <<>>
    /\ clips = {}
    /\ mels = {}
    /\ metadata_csv \in Manifests
    /\ training_txt = NoFile
    /\ validation_txt = NoFile
    /\ train_ratio \in Ratios
    /\ attempted = {}
    /\ segState = <<>>
    /\ splitLog = <<>>

SplitNext == CreateSplit

SplitSpec == SplitInit /\ [][SplitNext]_vars

----------------------------------------------------------------------------
(* Vocabulary of the properties. *)

\* the segments that have reached the state st
InState(st) == {p \in DOMAIN segState : segState[p] = st}

\* a segment whose duration is a number (or the default) and is <= 0
NonPositive(segment) ==
    \/ segment.dtype = "absent"
    \/ segment.dtype = "number" /\ segment.dval <= 0

\* the number of line ends in a file
LineCount(content) == Cardinality({i \in 1..Len(content) : content[i] = "\n"})

\* the lines of a file, the end of the last line closing it
LinesOf(content) ==
    IF content = <<>> THEN <<>> ELSE split(SubSeq(content, 1, Len(content) - 1), "\n")

----------------------------------------------------------------------------
(* C1 *)

C1_State ==
    \A i \in 1..Len(json_data) :
        NonPositive(json_data[i]) =>
            /\ <<audio_idx, i>> \in DOMAIN segState
            /\ segState[<<audio_idx, i>>] = "Skipped"
            /\ idx > i

C1_Step ==
    (/\ pc = "seg"
     /\ Len(json_data') = Len(json_data) + 1
     /\ NonPositive(Last(json_data')))
        => /\ clips' = clips
           /\ mels' = mels
           /\ metadata_entries' = metadata_entries
           /\ pc' = "seg"
           /\ idx' = idx + 1
           /\ audio_idx' = audio_idx
           /\ total_entries' = total_entries

----------------------------------------------------------------------------
(* C2 *)

\* C2: once the manifest is written, it has as many lines as there are
\* segments, over all recordings, that were transcoded, extracted and saved
\* (the Recorded ones); the others contribute none.
C2_ManifestLineCount ==
    metadata_csv # NoFile =>
        LineCount(metadata_csv) = Cardinality(InState("Recorded"))

\* a written manifest of a run in which two segments were recorded and one,
\* whose clip was made, was not
C2_Witness ==
    /\ metadata_csv # NoFile
    /\ Cardinality(InState("Recorded")) = 2
    /\ Cardinality(clips) = 3
    /\ Cardinality(mels) = 2

----------------------------------------------------------------------------
(* C3 *)

\* the recording a segment belongs to
BaseOf(p) == base_name(audio_files[p[1]])

\* C3: once the manifest is written, every Recorded segment has its clip
\* and its feature file under the names made of its recording and index,
\* and exactly one line of the manifest names the two.
C3_OneLinePerSegment ==
    metadata_csv # NoFile =>
        \A p \in InState("Recorded") :
            /\ segment_filename(BaseOf(p), p[2]) \in clips
            /\ mel_filename(BaseOf(p), p[2]) \in mels
            /\ Cardinality({k \in 1..Len(LinesOf(metadata_csv)) :
                   LinesOf(metadata_csv)[k] = metadata_entry(BaseOf(p), p[2])}) = 1

----------------------------------------------------------------------------
(* C4 *)

\* "a_b_segment_00i", what both recordings "a b" and "a_b" give for index i
C4_Stem(i) == <<"a", "_", "b", "_segment_", "0", "0", Digits[i + 1]>>

C4_Clip(i) == C4_Stem(i) \o <<".", "wav">>

C4_Mel(i) == C4_Stem(i) \o <<".", "npy">>

C4_Line(i) ==
    <<"hifi_gan_dataset", "/", "mel", "/">> \o C4_Mel(i)
        \o <<"|", "hifi_gan_dataset", "/", "audio", "/">> \o C4_Clip(i)

\* the first recording has the durations 5.0, -1.0, 3.2, its loop is over
\* and the two valid segments were recorded
C4_Scenario ==
    /\ pc = "seg"
    /\ audio_idx = 1
    /\ idx > total_entries
    /\ json_data = <<Seg("number", 50), Seg("number", -10), Seg("number", 32)>>
    /\ {<<1, 1>>, <<1, 3>>} \subseteq InState("Recorded")

\* C4: the index in a name is the position of the segment in the annotation
\* list: every clip, feature file and manifest entry carries the position of
\* a segment that was read, a segment past transcoding has its clip under
\* its own position and a Recorded one its feature file and entry too; with
\* the durations [5.0, -1.0, 3.2] the artifacts are those of 001 and 003.
C4_IndexIsPosition ==
    /\ clips \subseteq {C4_Clip(p[2]) : p \in DOMAIN segState}
    /\ mels \subseteq {C4_Mel(p[2]) : p \in InState("Recorded")}
    /\ Range(metadata_entries) \subseteq {C4_Line(p[2]) : p \in InState("Recorded")}
    /\ \A p \in InState("FeatureExtracting") \cup InState("Recorded") :
          C4_Clip(p[2]) \in clips
    /\ \A p \in InState("Recorded") :
          C4_Mel(p[2]) \in mels /\ C4_Line(p[2]) \in Range(metadata_entries)
    /\ C4_Scenario =>
          /\ clips = {C4_Clip(1), C4_Clip(3)}
          /\ mels = {C4_Mel(1), C4_Mel(3)}
          /\ metadata_entries = <<C4_Line(1), C4_Line(3)>>

C4_Witness == C4_Scenario

----------------------------------------------------------------------------
(* C5 *)

\* C5: no error of a segment or of a recording leaves the loops of main:
\* main is never ended by an exception.
C5_NoErrorEscapes == pc # "crashed"

----------------------------------------------------------------------------
(* C6 *)

\* C6: after a split that succeeded, the training ids and the validation
\* ids are disjoint, together they are the base identifiers of the manifest
\* lines, and no identifier is written twice.
C6_SplitIsPartition ==
    (splitLog # <<>> /\ Last(splitLog) = "ok") =>
        LET train == LinesOf(training_txt)
            val == LinesOf(validation_txt)
            ids == {BaseNameOf(l) : l \in Range(LinesOf(metadata_csv))}
        IN  /\ Range(train) \cap Range(val) = {}
            /\ Range(train) \cup Range(val) = ids
            /\ Len(train) + Len(val) = Cardinality(ids)

----------------------------------------------------------------------------
(* C7 *)

\* the lines of a file that are not empty
EntryCount(content) ==
    Cardinality({k \in 1..Len(LinesOf(content)) : LinesOf(content)[k] # <<>>})

\* floor(n * ratio)
C7_Floor(n, ratio) ==
    CHOOSE k \in 0..n : k * ratio[2] <= n * ratio[1] /\ (k + 1) * ratio[2] > n * ratio[1]

\* the split of a manifest of n entries at 0.9 is over
C7_Case(n) ==
    /\ pc = "done"
    /\ train_ratio = <<9, 10>>
    /\ EntryCount(metadata_csv) = n
    /\ \A l \in Range(LinesOf(metadata_csv)) : Cardinality({k \in 1..Len(l) : l[k] = "|"}) = 1

\* C7: a split that succeeded on N entries at ratio r wrote floor(N * r)
\* training ids and N - floor(N * r) validation ids; 10 entries at 0.9 give
\* 9 and 1, and 1 entry at 0.9 gives 0 and 1 and the split does not fail.
C7_SplitSizes ==
    /\ splitLog = <<"ok">> =>
          LET n == EntryCount(metadata_csv)
          IN  /\ LineCount(training_txt) = C7_Floor(n, train_ratio)
              /\ LineCount(validation_txt) = n - C7_Floor(n, train_ratio)
    /\ C7_Case(10) =>
          /\ splitLog = <<"ok">>
          /\ LineCount(training_txt) = 9
          /\ LineCount(validation_txt) = 1
    /\ C7_Case(1) =>
          /\ splitLog = <<"ok">>
          /\ LineCount(training_txt) = 0
          /\ LineCount(validation_txt) = 1

C7_Witness == C7_Case(10) /\ LineCount(training_txt) = 9

----------------------------------------------------------------------------
(* C8 *)

\* C8: when ffmpeg is not found, main stops at once: no recording is
\* attempted (no annotation file loaded), no segment is read, no clip or
\* feature file is written, and neither the manifest nor the id files are.
C8_AbortWithoutFfmpeg ==
    ~ffmpeg_exists =>
        /\ pc \in {"start", "exit"}
        /\ attempted = {}
        /\ segState = <<>>
        /\ clips = {}
        /\ mels = {}
        /\ metadata_csv = NoFile
        /\ training_txt = NoFile
        /\ validation_txt = NoFile
        /\ splitLog = <<>>

C8_Witness == ~ffmpeg_exists /\ pc = "exit"

----------------------------------------------------------------------------
(* C9 *)

\* a manifest without an entry
C9_NoEntry(content) == \A i \in 1..Len(content) : content[i] \in Whitespace

\* a manifest with a line, between its first and its last entry, that has
\* no "|"
C9_LineWithoutDelimiter(content) ==
    \E l \in Range(split(strip(content), "\n")) : "|" \notin Range(l)

C9_Step ==
    (/\ pc = "split"
     /\ metadata_csv # NoFile
     /\ C9_NoEntry(metadata_csv) \/ C9_LineWithoutDelimiter(metadata_csv))
        => /\ splitLog' = Append(splitLog, "error")
           /\ training_txt' = training_txt
           /\ validation_txt' = validation_txt
           /\ metadata_csv' = metadata_csv
           /\ pc' = "done"

\* C9: the split of a manifest that has no entry, or a line without "|",
\* ends in an error that main handles: the step writes neither id file and
\* leaves the manifest as it is.
C9_SplitFailure == [][C9_Step]_vars

\* a failed split of a manifest that has an entry and a line without "|"
C9_Witness ==
    /\ splitLog = <<"error">>
    /\ metadata_csv # NoFile
    /\ ~C9_NoEntry(metadata_csv)
    /\ C9_LineWithoutDelimiter(metadata_csv)
    /\ \E l \in Range(LinesOf(metadata_csv)) : "|" \in Range(l)
    /\ training_txt = NoFile
    /\ validation_txt = NoFile

----------------------------------------------------------------------------
(* C10 *)

\* C10: two different segments of a run whose clips were written never have
\* the same clip name or the same feature name.
C10_NamesAreUnique ==
    \A p, q \in InState("FeatureExtracting") \cup InState("Recorded") :
        p # q =>
            /\ segment_filename(BaseOf(p), p[2]) # segment_filename(BaseOf(q), q[2])
            /\ mel_filename(BaseOf(p), p[2]) # mel_filename(BaseOf(q), q[2])

----------------------------------------------------------------------------
(* C11 *)

Terminal == {"Recorded", "Skipped"}

\* how far a segment has come
C11_Rank(st) ==
    IF st = "Transcoding" THEN 1 ELSE IF st = "FeatureExtracting" THEN 2 ELSE 3

C11_State ==
    /\ Len(splitLog) <= 1
    /\ (pc = "split" \/ splitLog # <<>>) => metadata_csv # NoFile
    /\ metadata_csv # NoFile =>
          /\ pc \in {"split", "done"}
          /\ attempted = 1..Len(audio_files)
          /\ \A p \in DOMAIN segState : segState[p] \in Terminal

C11_Step ==
    /\ (pc = "seg" /\ pc' = "rec") =>
          \A i \in 1..total_entries :
              /\ <<audio_idx, i>> \in DOMAIN segState
              /\ segState[<<audio_idx, i>>] \in Terminal
    /\ \A p \in DOMAIN segState :
          /\ p \in DOMAIN segState'
          /\ C11_Rank(segState'[p]) >= C11_Rank(segState[p])
          /\ segState[p] \in Terminal => segState'[p] = segState[p]
    /\ splitLog' # splitLog => pc = "split" /\ metadata_csv # NoFile
    /\ metadata_csv # NoFile =>
          /\ clips' = clips
          /\ mels' = mels
          /\ metadata_entries' = metadata_entries
          /\ metadata_csv' = metadata_csv
          /\ segState' = segState

\* C11: the splitter is called at most once and only when the manifest is
\* written; the manifest is written only when the body of the loop has run
\* for every recording and every segment read is Recorded or Skipped (the
\* loop over a recording's segments ends only when each of them is); a
\* segment never goes back to an earlier state nor leaves a final one; and
\* once the manifest is written no clip, feature file or entry is added.
C11_SplitAfterFlushAfterAll == [](C11_State) /\ [][C11_Step]_vars

\* a finished run of two recordings, with a recorded and a skipped segment,
\* whose split succeeded
C11_Witness ==
    /\ pc = "done"
    /\ splitLog = <<"ok">>
    /\ Len(audio_files) = 2
    /\ attempted = {1, 2}
    /\ InState("Recorded") # {}
    /\ InState("Skipped") # {}

----------------------------------------------------------------------------
(* C12 *)

\* s is the beginning of t
C12_Prefix(s, t) == Len(s) <= Len(t) /\ SubSeq(t, 1, Len(s)) = s

\* the step in which the extraction or the save of the current segment,
\* whose clip was made, fails
C12_FailsAfterTranscode ==
    /\ pc \in {"extract", "save"}
    /\ segState'[<<audio_idx, idx>>] # segState[<<audio_idx, idx>>]
    /\ segState'[<<audio_idx, idx>>] # "Recorded"

C12_Step ==
    /\ C12_FailsAfterTranscode =>
          /\ segState'[<<audio_idx, idx>>] = "Skipped"
          /\ pc' = "seg"
          /\ idx' = idx + 1
          /\ C4_Clip(idx) \in clips'
          /\ clips' = clips
          /\ mels' = mels
          /\ metadata_entries' = metadata_entries
    /\ clips \subseteq clips'
    /\ C12_Prefix(metadata_entries, metadata_entries')
    /\ metadata_entries' # metadata_entries =>
          /\ pc = "save"
          /\ metadata_entries' = Append(metadata_entries, C4_Line(idx))
          /\ segState'[<<audio_idx, idx>>] = "Recorded"

\* C12: when the extraction or the save fails for a segment whose clip was
\* made, the segment becomes Skipped, its clip stays (no step ever removes a
\* clip), no entry is appended and the entries gathered so far stay as they
\* are; an entry is only ever appended, for the segment that the same step
\* makes Recorded.
C12_OrphanClipKept == [][C12_Step]_vars

\* the first recording: segment 1 recorded, segment 2 skipped after its
\* clip was made
C12_Witness ==
    /\ audio_idx = 1
    /\ <<1, 1>> \in InState("Recorded")
    /\ <<1, 2>> \in InState("Skipped")
    /\ C4_Clip(2) \in clips
    /\ C4_Mel(2) \notin mels
    /\ metadata_entries = <<C4_Line(1)>>

----------------------------------------------------------------------------
(* C13 *)

\* main is over: sys.exit, return, the end of main, or an exception
C13_Ended == pc \in {"exit", "returned", "done", "crashed"}

\* C13: with no supported audio file main returns before the flush and
\* neither the manifest nor the id files are written nor the splitter
\* called; a run over at least one supported audio file ends past the
\* flush, which it reaches once; and when it wrote the manifest with no
\* segment recorded, the manifest has no line and the split failed.
C13_FlushUnlessNoAudio ==
    /\ (pc = "returned" \/ (audio_files = <<>> /\ C13_Ended)) =>
          /\ audio_files = <<>>
          /\ metadata_csv = NoFile
          /\ training_txt = NoFile
          /\ validation_txt = NoFile
          /\ splitLog = <<>>
    /\ (audio_files # <<>> /\ C13_Ended) => pc = "done"
    /\ (pc = "done" /\ metadata_csv # NoFile /\ InState("Recorded") = {}) =>
          /\ LineCount(metadata_csv) = 0
          /\ splitLog = <<"error">>
          /\ training_txt = NoFile
          /\ validation_txt = NoFile

====
